---------------------------- MODULE Spec2Model ----------------------------
(***************************************************************************)
(* Two-click move entry, random opponent and FEN sender of the Raspberry   *)
(* Pi chess board (completo.py: ChessGUI; inicial.py: the CLI loop).       *)
(*                                                                         *)
(* The chess rules come from python-chess (chess.Board).  They are         *)
(* modelled here on the real 8x8 board: piece moves, check, castling, en   *)
(* passant, promotion, the FEN encoder and the game-over tests the two     *)
(* programs call.                                                          *)
(***************************************************************************)
EXTENDS Integers, Sequences, FiniteSets, TLC

(***************************************************************************)
(* Squares, pieces and moves (chess.square, chess.Piece, chess.Move)       *)
(***************************************************************************)
WHITE == TRUE
BLACK == FALSE

SQUARES == 0..63
Coords == 0..7

\* chess.square(file, rank)
square(file, rank) == rank * 8 + file
square_file(sq) == sq % 8
square_rank(sq) == sq \div 8

\* No piece on a square (piece_at returns None).
Empty == "."
WhiteSymbols == {"P", "N", "B", "R", "Q", "K"}
BlackSymbols == {"p", "n", "b", "r", "q", "k"}

\* piece.color of a piece symbol
ColorOf(sym) == sym \in WhiteSymbols

\* piece.piece_type of a piece symbol, as the upper-case letter
TypeOf(sym) ==
  CASE sym \in {"P", "p"} -> "P"
    [] sym \in {"N", "n"} -> "N"
    [] sym \in {"B", "b"} -> "B"
    [] sym \in {"R", "r"} -> "R"
    [] sym \in {"Q", "q"} -> "Q"
    [] sym \in {"K", "k"} -> "K"

\* chess.Piece(piece_type, color).symbol()
Symbol(type, color) ==
  IF color = WHITE THEN type
  ELSE CASE type = "P" -> "p" [] type = "N" -> "n" [] type = "B" -> "b"
         [] type = "R" -> "r" [] type = "Q" -> "q" [] type = "K" -> "k"

\* promotion = None
NoPromotion == "-"

\* chess.Move(from_square, to_square, promotion=None)
Move(from, to) == [from_square |-> from, to_square |-> to, promotion |-> NoPromotion]
MovePromo(from, to, type) == [from_square |-> from, to_square |-> to, promotion |-> type]

(***************************************************************************)
(* Board geometry                                                          *)
(***************************************************************************)
OnBoard(f, r) == f \in Coords /\ r \in Coords

KnightSteps == {<<1, 2>>, <<2, 1>>, <<2, -1>>, <<1, -2>>,
                <<-1, -2>>, <<-2, -1>>, <<-2, 1>>, <<-1, 2>>}
RookDirs == {<<1, 0>>, <<-1, 0>>, <<0, 1>>, <<0, -1>>}
BishopDirs == {<<1, 1>>, <<1, -1>>, <<-1, 1>>, <<-1, -1>>}
KingSteps == RookDirs \cup BishopDirs

StepTargets(sq, steps) ==
  {square(square_file(sq) + d[1], square_rank(sq) + d[2]) :
     d \in {e \in steps : OnBoard(square_file(sq) + e[1], square_rank(sq) + e[2])}}

KnightAttacks == [sq \in SQUARES |-> StepTargets(sq, KnightSteps)]
KingAttacks == [sq \in SQUARES |-> StepTargets(sq, KingSteps)]

\* The squares from sq (excluded) to the edge of the board in direction d.
RECURSIVE RayFrom(_, _, _)
RayFrom(f, r, d) ==
  IF OnBoard(f + d[1], r + d[2])
  THEN <<square(f + d[1], r + d[2])>> \o RayFrom(f + d[1], r + d[2], d)
  ELSE <<>>

Rays == [sq \in SQUARES |-> [d \in KingSteps |-> RayFrom(square_file(sq), square_rank(sq), d)]]

\* The index of the first occupied square of a ray, from index i on; one past
\* the end when the rest of the ray is empty.
RECURSIVE FirstOccupied(_, _, _)
FirstOccupied(pieces, ray, i) ==
  IF i > Len(ray) \/ pieces[ray[i]] # Empty THEN i
  ELSE FirstOccupied(pieces, ray, i + 1)

\* The squares a slider on sq reaches in direction d: up to and including the
\* first occupied square.
Reach(pieces, sq, d) ==
  LET ray == Rays[sq][d]
      last == FirstOccupied(pieces, ray, 1)
  IN {ray[i] : i \in 1..(IF last > Len(ray) THEN Len(ray) ELSE last)}

\* The first piece met from sq in direction d, Empty when there is none.
FirstPiece(pieces, sq, d) ==
  LET ray == Rays[sq][d]
      last == FirstOccupied(pieces, ray, 1)
  IN IF last > Len(ray) THEN Empty ELSE pieces[ray[last]]

\* Squares from which a pawn of `color` attacks sq.
PawnAttackers(color, sq) ==
  LET r == IF color = WHITE THEN square_rank(sq) - 1 ELSE square_rank(sq) + 1
  IN {square(f, r) : f \in {g \in {square_file(sq) - 1, square_file(sq) + 1} : OnBoard(g, r)}}

\* board.is_attacked_by(color, sq) on a piece placement
IsAttackedBy(pieces, color, sq) ==
  \/ \E t \in KnightAttacks[sq] : pieces[t] = Symbol("N", color)
  \/ \E t \in KingAttacks[sq] : pieces[t] = Symbol("K", color)
  \/ \E t \in PawnAttackers(color, sq) : pieces[t] = Symbol("P", color)
  \/ \E d \in RookDirs :
        FirstPiece(pieces, sq, d) \in {Symbol("R", color), Symbol("Q", color)}
  \/ \E d \in BishopDirs :
        FirstPiece(pieces, sq, d) \in {Symbol("B", color), Symbol("Q", color)}


(***************************************************************************)
(* chess.Board: the position and its rules                                 *)
(***************************************************************************)
E1 == square(4, 0)
E8 == square(4, 7)

\* board.piece_at(sq): the symbol on sq, or Empty for None
piece_at(b, sq) == b.pieces[sq]

OwnAt(b, sq) == piece_at(b, sq) # Empty /\ ColorOf(piece_at(b, sq)) = b.turn
EnemyAt(b, sq) == piece_at(b, sq) # Empty /\ ColorOf(piece_at(b, sq)) # b.turn

\* board.king(color): the king's square, as a set (empty when there is none)
KingSquares(pieces, color) == {sq \in SQUARES : pieces[sq] = Symbol("K", color)}

\* The king of `color` stands on a square the other side attacks.
InCheck(pieces, color) == \E k \in KingSquares(pieces, color) : IsAttackedBy(pieces, ~color, k)

LastRank(color) == IF color = WHITE THEN 7 ELSE 0
PawnStartRank(color) == IF color = WHITE THEN 1 ELSE 6
Forward(color) == IF color = WHITE THEN 8 ELSE -8

\* The from/to pairs of the pawn on `from`: pushes, captures and en passant.
PawnTargets(b, from) ==
  LET one == from + Forward(b.turn)
      two == one + Forward(b.turn)
      pushes == IF one \in SQUARES /\ piece_at(b, one) = Empty
                THEN {one} \cup (IF square_rank(from) = PawnStartRank(b.turn)
                                    /\ piece_at(b, two) = Empty
                                 THEN {two} ELSE {})
                ELSE {}
      takes == {t \in PawnAttackers(~b.turn, from) :
                  \/ EnemyAt(b, t)
                  \/ b.ep_square = <<t>> /\ piece_at(b, t) = Empty}
  IN pushes \cup takes

\* The squares the knight, bishop, rook, queen or king on `from` can go to.
PieceTargets(b, from) ==
  LET type == TypeOf(piece_at(b, from))
      raw == CASE type = "N" -> KnightAttacks[from]
               [] type = "K" -> KingAttacks[from]
               [] type = "B" -> UNION {Reach(b.pieces, from, d) : d \in BishopDirs}
               [] type = "R" -> UNION {Reach(b.pieces, from, d) : d \in RookDirs}
               [] type = "Q" -> UNION {Reach(b.pieces, from, d) : d \in KingSteps}
  IN {t \in raw : ~OwnAt(b, t)}

PromotionTypes == {"Q", "R", "B", "N"}

\* board.clean_castling_rights(): the rook squares that still carry a right
clean_castling_rights(b) ==
  {rk \in b.castling_rights :
     LET color == square_rank(rk) = 0
         home == IF color = WHITE THEN E1 ELSE E8
     IN /\ rk \in {square(0, 0), square(7, 0), square(0, 7), square(7, 7)}
        /\ b.pieces[rk] = Symbol("R", color)
        /\ b.pieces[home] = Symbol("K", color)}

\* board.generate_castling_moves(): the king's two-square moves
CastlingMoves(b) ==
  LET home == IF b.turn = WHITE THEN E1 ELSE E8
      r == square_rank(home)
      short == /\ square(7, r) \in clean_castling_rights(b)
               /\ \A f \in {5, 6} : b.pieces[square(f, r)] = Empty
               /\ \A f \in {4, 5, 6} : ~IsAttackedBy(b.pieces, ~b.turn, square(f, r))
      long == /\ square(0, r) \in clean_castling_rights(b)
              /\ \A f \in {1, 2, 3} : b.pieces[square(f, r)] = Empty
              /\ \A f \in {4, 3, 2} : ~IsAttackedBy(b.pieces, ~b.turn, square(f, r))
  IN (IF short THEN {Move(home, square(6, r))} ELSE {})
       \cup (IF long THEN {Move(home, square(2, r))} ELSE {})

\* board.is_castling(move)
is_castling(b, m) ==
  /\ TypeOf(piece_at(b, m.from_square)) = "K"
  /\ \/ square_file(m.from_square) - square_file(m.to_square) \in {-2, 2}
     \/ piece_at(b, m.to_square) = Symbol("R", b.turn)

\* board.is_en_passant(move)
is_en_passant(b, m) ==
  /\ b.ep_square = <<m.to_square>>
  /\ TypeOf(piece_at(b, m.from_square)) = "P"
  /\ square_file(m.from_square) # square_file(m.to_square)
  /\ piece_at(b, m.to_square) = Empty

\* board.is_capture(move)
is_capture(b, m) == EnemyAt(b, m.to_square) \/ is_en_passant(b, m)

\* The piece placement after the move (the part of push that moves pieces).
PiecesAfter(b, m) ==
  LET from == m.from_square
      to == m.to_square
      sym == piece_at(b, from)
      r == square_rank(from)
      aSide == square_file(to) < square_file(from)
  IN IF is_castling(b, m)
     THEN LET rookFrom == square(IF aSide THEN 0 ELSE 7, r)
              cleared == [b.pieces EXCEPT ![from] = Empty, ![rookFrom] = Empty]
          IN [cleared EXCEPT ![square(IF aSide THEN 2 ELSE 6, r)] = sym,
                             ![square(IF aSide THEN 3 ELSE 5, r)] = Symbol("R", b.turn)]
     ELSE LET placed == IF m.promotion = NoPromotion THEN sym
                        ELSE Symbol(m.promotion, b.turn)
              moved == [b.pieces EXCEPT ![from] = Empty, ![to] = placed]
          IN IF is_en_passant(b, m)
             THEN [moved EXCEPT ![to - Forward(b.turn)] = Empty]
             ELSE moved

\* The pseudo-legal moves of the piece on `from`, castling aside: a pawn that
\* reaches its last rank promotes to each of the four pieces.
MovesFrom(b, from) ==
  IF TypeOf(piece_at(b, from)) = "P"
  THEN UNION {IF square_rank(t) = LastRank(b.turn)
              THEN {MovePromo(from, t, p) : p \in PromotionTypes}
              ELSE {Move(from, t)} : t \in PawnTargets(b, from)}
  ELSE {Move(from, t) : t \in PieceTargets(b, from)}

\* board.generate_pseudo_legal_moves() and the castling moves
PseudoLegalMoves(b) ==
  UNION {MovesFrom(b, from) : from \in {sq \in SQUARES : OwnAt(b, sq)}} \cup CastlingMoves(b)

\* Where the king moved by m ends up (the g- or c-file when castling).
KingAfter(b, m) ==
  IF is_castling(b, m)
  THEN square(IF square_file(m.to_square) < square_file(m.from_square) THEN 2 ELSE 6,
              square_rank(m.from_square))
  ELSE m.to_square

\* list(board.legal_moves): the moves that do not leave the own king attacked
LegalMoves(b) ==
  LET kings == KingSquares(b.pieces, b.turn)
  IN {m \in PseudoLegalMoves(b) :
        LET after == PiecesAfter(b, m)
            now == IF m.from_square \in kings THEN {KingAfter(b, m)} ELSE kings
        IN \A k \in now : ~IsAttackedBy(after, ~b.turn, k)}

\* Board.is_legal(move) for one move: pseudo-legal, and the own king is not
\* attacked once it is made.
is_legal(b, m) ==
  /\ OwnAt(b, m.from_square)
  /\ m \in MovesFrom(b, m.from_square) \/ m \in CastlingMoves(b)
  /\ ~InCheck(PiecesAfter(b, m), b.turn)

\* Board._from_chess960: the king "taking" its own rook on a1/h1/a8/h8 is read
\* as the castling move to c1/g1/c8/g8.
FromChess960(b, m) ==
  IF /\ m.promotion = NoPromotion
     /\ m.from_square \in {E1, E8}
     /\ TypeOf(piece_at(b, m.from_square)) = "K"
     /\ square_rank(m.to_square) = square_rank(m.from_square)
     /\ square_file(m.to_square) \in {0, 7}
  THEN Move(m.from_square,
            square(IF square_file(m.to_square) = 7 THEN 6 ELSE 2, square_rank(m.from_square)))
  ELSE m

\* `move in board.legal_moves` (Board.is_legal), `legal` being list(board.legal_moves)
Contains(b, legal, m) ==
  \/ m \in legal
  \/ /\ OwnAt(b, m.from_square)
     /\ TypeOf(piece_at(b, m.from_square)) = "K"
     /\ FromChess960(b, m) # m
     /\ FromChess960(b, m) \in legal


\* board.is_zeroing(move): a pawn move or a capture resets the halfmove clock
is_zeroing(b, m) ==
  \/ TypeOf(piece_at(b, m.from_square)) = "P"
  \/ EnemyAt(b, m.to_square)

\* board.push(move)
Push(b, m) ==
  LET from == m.from_square
      to == m.to_square
      sym == piece_at(b, from)
      homeRank == {sq \in SQUARES : square_rank(sq) = (IF b.turn = WHITE THEN 0 ELSE 7)}
      rights == (clean_castling_rights(b) \ {from, to})
                  \ (IF TypeOf(sym) = "K" THEN homeRank ELSE {})
      doublePush == /\ TypeOf(sym) = "P"
                    /\ to - from = 2 * Forward(b.turn)
                    /\ square_rank(from) = PawnStartRank(b.turn)
  IN [pieces |-> PiecesAfter(b, m),
      turn |-> ~b.turn,
      castling_rights |-> rights,
      ep_square |-> IF doublePush THEN <<from + Forward(b.turn)>> ELSE <<>>,
      halfmove_clock |-> IF is_zeroing(b, m) THEN 0 ELSE b.halfmove_clock + 1,
      fullmove_number |-> IF b.turn = BLACK THEN b.fullmove_number + 1
                          ELSE b.fullmove_number]

\* board.has_legal_en_passant()
has_legal_en_passant(b) ==
  /\ b.ep_square # <<>>
  /\ \E m \in LegalMoves(b) : is_en_passant(b, m)

\* board.has_insufficient_material(color)
has_insufficient_material(b, color) ==
  LET mine == {sq \in SQUARES : b.pieces[sq] # Empty /\ ColorOf(b.pieces[sq]) = color}
      theirs == {sq \in SQUARES : b.pieces[sq] # Empty /\ ColorOf(b.pieces[sq]) # color}
      typed(S, types) == {sq \in S : TypeOf(b.pieces[sq]) \in types}
      all == mine \cup theirs
      dark(sq) == (square_file(sq) + square_rank(sq)) % 2 = 0
      bishops == typed(all, {"B"})
  IN IF typed(mine, {"P", "R", "Q"}) # {} THEN FALSE
     ELSE IF typed(mine, {"N"}) # {}
     THEN Cardinality(mine) <= 2 /\ typed(theirs, {"P", "N", "B", "R"}) = {}
     ELSE IF typed(mine, {"B"}) # {}
     THEN /\ (\A sq \in bishops : dark(sq)) \/ (\A sq \in bishops : ~dark(sq))
          /\ typed(all, {"P", "N"}) = {}
     ELSE TRUE

\* board.is_insufficient_material()
is_insufficient_material(b) ==
  has_insufficient_material(b, WHITE) /\ has_insufficient_material(b, BLACK)

\* board.is_game_over(): checkmate, stalemate, insufficient material or the
\* seventy-five-move rule.  (Fivefold repetition needs one position five times,
\* at least sixteen plies of one game; the games explored here are shorter and
\* start from histories without repetition.)
HasOutcome(b, legal) ==
  \/ legal = {}
  \/ is_insufficient_material(b)
  \/ b.halfmove_clock >= 150

is_game_over(b) == HasOutcome(b, LegalMoves(b))

\* list(board.legal_moves) and board.is_game_over() of one board, worked out once.
Rules(b) ==
  LET legal == LegalMoves(b)
  IN [legal_moves |-> legal, game_over |-> HasOutcome(b, legal)]

(***************************************************************************)
(* board.fen(): the six-field Forsyth-Edwards line                         *)
(***************************************************************************)
FILE_NAMES == <<"a", "b", "c", "d", "e", "f", "g", "h">>

\* chess.square_name(sq)
square_name(sq) == FILE_NAMES[square_file(sq) + 1] \o ToString(square_rank(sq) + 1)

\* One rank of board.board_fen(), from file f on, after `run` empty squares.
RECURSIVE RankFen(_, _, _, _)
RankFen(pieces, rank, f, run) ==
  LET flush == IF run > 0 THEN ToString(run) ELSE ""
  IN IF f > 7 THEN flush
     ELSE IF pieces[square(f, rank)] = Empty THEN RankFen(pieces, rank, f + 1, run + 1)
     ELSE flush \o pieces[square(f, rank)] \o RankFen(pieces, rank, f + 1, 0)

\* board.board_fen(): ranks 8 down to 1, separated by "/"
RECURSIVE BoardFenFrom(_, _)
BoardFenFrom(pieces, rank) ==
  IF rank = 0 THEN RankFen(pieces, 0, 0, 0)
  ELSE RankFen(pieces, rank, 0, 0) \o "/" \o BoardFenFrom(pieces, rank - 1)

board_fen(b) == BoardFenFrom(b.pieces, 7)

\* board.castling_xfen(): K, Q, k, q in that order, or "-"
castling_xfen(b) ==
  LET rights == clean_castling_rights(b)
      flag(sq, name) == IF sq \in rights THEN name ELSE ""
      all == flag(square(7, 0), "K") \o flag(square(0, 0), "Q")
               \o flag(square(7, 7), "k") \o flag(square(0, 7), "q")
  IN IF all = "" THEN "-" ELSE all

\* board.fen(): the en passant square is written only when the capture is legal
fen(b) ==
  board_fen(b) \o " " \o (IF b.turn = WHITE THEN "w" ELSE "b")
    \o " " \o castling_xfen(b)
    \o " " \o (IF has_legal_en_passant(b) THEN square_name(b.ep_square[1]) ELSE "-")
    \o " " \o ToString(b.halfmove_clock)
    \o " " \o ToString(b.fullmove_number)

(***************************************************************************)
(* Positions                                                               *)
(***************************************************************************)
\* A piece placement from its eight ranks, rank 8 first, one symbol per square.
Placement(rows) == [sq \in SQUARES |-> rows[8 - square_rank(sq)][square_file(sq) + 1]]

\* chess.Board(): the standard starting position
StartBoard ==
  [pieces |-> Placement(<<
       <<"r", "n", "b", "q", "k", "b", "n", "r">>,
       <<"p", "p", "p", "p", "p", "p", "p", "p">>,
       <<".", ".", ".", ".", ".", ".", ".", ".">>,
       <<".", ".", ".", ".", ".", ".", ".", ".">>,
       <<".", ".", ".", ".", ".", ".", ".", ".">>,
       <<".", ".", ".", ".", ".", ".", ".", ".">>,
       <<"P", "P", "P", "P", "P", "P", "P", "P">>,
       <<"R", "N", "B", "Q", "K", "B", "N", "R">> >>),
   turn |-> WHITE,
   castling_rights |-> {square(0, 0), square(7, 0), square(0, 7), square(7, 7)},
   ep_square |-> <<>>,
   halfmove_clock |-> 0,
   fullmove_number |-> 1]

\* Positions of games in progress, each reachable by play from StartBoard.
\* White to move: the a-pawn promotes on a8 or by taking on b8 (mate as a queen
\* or rook, a dead draw as a bishop or knight).
PromotionBoard ==
  [pieces |-> Placement(<<
       <<".", "n", ".", ".", ".", ".", ".", "k">>,
       <<"P", ".", ".", ".", ".", ".", ".", ".">>,
       <<".", ".", ".", ".", ".", ".", "K", ".">>,
       <<".", ".", ".", ".", ".", ".", ".", ".">>,
       <<".", ".", ".", ".", ".", ".", ".", ".">>,
       <<".", ".", ".", ".", ".", ".", ".", ".">>,
       <<".", ".", ".", ".", ".", ".", ".", ".">>,
       <<".", ".", ".", ".", ".", ".", ".", ".">> >>),
   turn |-> WHITE,
   castling_rights |-> {},
   ep_square |-> <<>>,
   halfmove_clock |-> 3,
   fullmove_number |-> 61]

\* Black to move: the h-pawn promotes on h1 or by taking on g1; the halfmove
\* clock stands one short of the seventy-five-move rule.
BlackPromotionBoard ==
  [pieces |-> Placement(<<
       <<".", ".", ".", ".", ".", ".", ".", ".">>,
       <<".", ".", ".", ".", ".", ".", ".", ".">>,
       <<".", ".", ".", ".", ".", ".", ".", ".">>,
       <<".", ".", ".", ".", ".", ".", ".", ".">>,
       <<".", ".", ".", ".", ".", ".", ".", ".">>,
       <<".", "k", ".", ".", ".", ".", ".", ".">>,
       <<".", ".", ".", ".", ".", ".", ".", "p">>,
       <<"K", ".", ".", ".", ".", ".", "N", ".">> >>),
   turn |-> BLACK,
   castling_rights |-> {},
   ep_square |-> <<>>,
   halfmove_clock |-> 149,
   fullmove_number |-> 120]

\* White to move after ...d7-d5: castling short and exd6 en passant are legal.
CastlingBoard ==
  [pieces |-> Placement(<<
       <<".", ".", ".", ".", ".", ".", "k", ".">>,
       <<".", ".", ".", ".", ".", ".", ".", ".">>,
       <<".", ".", ".", ".", ".", ".", ".", ".">>,
       <<".", ".", ".", "p", "P", ".", ".", ".">>,
       <<".", ".", ".", ".", ".", ".", ".", ".">>,
       <<".", ".", ".", ".", ".", ".", ".", ".">>,
       <<".", ".", ".", ".", ".", ".", ".", "P">>,
       <<".", ".", ".", ".", "K", ".", ".", "R">> >>),
   turn |-> WHITE,
   castling_rights |-> {square(7, 0)},
   ep_square |-> <<square(3, 5)>>,
   halfmove_clock |-> 0,
   fullmove_number |-> 40]

\* White to move with a weak back rank: after c2-c3 or c2-c4 Black mates on a1.
BackRankBoard ==
  [pieces |-> Placement(<<
       <<"r", ".", ".", ".", ".", ".", "k", ".">>,
       <<".", ".", ".", ".", ".", ".", ".", ".">>,
       <<".", ".", ".", ".", ".", ".", ".", ".">>,
       <<".", ".", ".", ".", ".", ".", ".", ".">>,
       <<".", ".", ".", ".", ".", ".", ".", ".">>,
       <<".", ".", ".", ".", ".", ".", ".", ".">>,
       <<".", ".", "P", ".", ".", ".", "P", "P">>,
       <<".", ".", ".", ".", ".", ".", ".", "K">> >>),
   turn |-> WHITE,
   castling_rights |-> {},
   ep_square |-> <<>>,
   halfmove_clock |-> 5,
   fullmove_number |-> 52]

GamesInProgress == {PromotionBoard, BlackPromotionBoard, CastlingBoard, BackRankBoard}

(***************************************************************************)
(* Program state                                                           *)
(***************************************************************************)
VARIABLES
  app,              \* which entry program runs: "gui" (completo.py) or "cli" (inicial.py)
  status,           \* "start", "aborted", "running", "finished" or "crashed"
  board,            \* self.board / main's board
  legal_moves,      \* list(board.legal_moves) of the current board
  game_over,        \* board.is_game_over() of the current board
  selected_square,  \* self.selected_square: <<>> for None, <<sq>> for a square
  legal_targets,    \* self.legal_targets
  capture_targets,  \* self.capture_targets
  mode_var,         \* self.mode_var: "pvp" or "pvc"
  handled,          \* the last event handled and the branch its handler took
  trace,            \* what that handler did, in order: pushes, sends, reads, prints
  budget,           \* the plies the exploration may still add to this game
  last_sent         \* the line last handed to link.send_line, "" before the first

vars == <<app, status, board, legal_moves, game_over, selected_square, legal_targets,
          capture_targets, mode_var, handled, trace, budget,
          last_sent>>

\* How far a game in progress is played on, in plies.
MaxPlies == 2

\* How far a game is played from the start position, in plies.
MaxStartPlies == 1

\* Lines the Arduino may answer with; "" is a read that timed out or failed.
Responses == {"", "OK"}

\* Before chess.Board() has run there is no position.
NoBoard ==
  [pieces |-> [sq \in SQUARES |-> Empty], turn |-> WHITE, castling_rights |-> {},
   ep_square |-> <<>>, halfmove_clock |-> 0, fullmove_number |-> 0]

(***************************************************************************)
(* Serial link and FEN sender                                              *)
(***************************************************************************)
\* A faulty send_fen: board.board_fen() in place of board.fen(), the placement
\* field alone.
send_board_fen(b, ok) == [op |-> "send", line |-> board_fen(b), ok |-> ok]

\* send_fen(link, board): one line handed to link.send_line; ok = FALSE when
\* the write or the flush raises.
send_fen(b, ok) == [op |-> "send", line |-> fen(b), ok |-> ok]

\* A faulty send_position_to_arduino: it returns without sending.
send_nothing(b) == {<<>>}

\* ChessGUI.send_position_to_arduino: the exception of a failed send is caught
\* and printed, so every outcome returns normally.
send_position_to_arduino(b) == {<<send_fen(b, ok)>> : ok \in BOOLEAN}

\* resp = link.read_line(); if resp: print(...)
read_line_and_print ==
  {<<[op |-> "read", resp |-> resp]>>
     \o (IF resp # "" THEN <<[op |-> "print", text |-> resp]>> ELSE <<>>) :
   resp \in Responses}

\* board.push(move), as an entry of the trace
PushEvent(b, m, who) == [op |-> "push", move |-> m, by |-> who, fen |-> fen(Push(b, m))]

\* self.board = chess.Board(), as an entry of the trace
NewEvent == [op |-> "new", fen |-> fen(StartBoard)]

\* ChessGUI._show_game_over: the message box
ShowGameOver == [op |-> "show_game_over"]

(***************************************************************************)
(* ChessGUI                                                                *)
(***************************************************************************)
NoSquare == <<>>

\* A faulty _compute_targets_for_selected: the capture test sits outside the
\* test of the origin square, so every capture on the board is a capture target.
compute_targets_unnested(b, legal, sel) ==
  IF sel = NoSquare
  THEN [legal_targets |-> {}, capture_targets |-> {}]
  ELSE [legal_targets |-> {m.to_square : m \in {n \in legal : n.from_square = sel[1]}},
        capture_targets |-> {m.to_square : m \in {n \in legal : is_capture(b, n)}}]

\* ChessGUI._compute_targets_for_selected: the two target sets for `sel`
compute_targets_for_selected(b, legal, sel) ==
  IF sel = NoSquare
  THEN [legal_targets |-> {}, capture_targets |-> {}]
  ELSE [legal_targets |-> {m.to_square : m \in {n \in legal : n.from_square = sel[1]}},
        capture_targets |->
          {m.to_square : m \in {n \in legal : n.from_square = sel[1] /\ is_capture(b, n)}}]

\* ChessGUI._is_pawn_promotion(from_sq, to_sq)
is_pawn_promotion(b, from_sq, to_sq) ==
  LET piece == piece_at(b, from_sq)
  IN IF piece = Empty \/ TypeOf(piece) # "P" THEN FALSE
     ELSE \/ ColorOf(piece) = WHITE /\ square_rank(to_sq) = 7
          \/ ColorOf(piece) = BLACK /\ square_rank(to_sq) = 0

\* random.choice(legal): any element
RandomChoice(legal) == legal

\* A faulty _make_computer_move: no test of the end of the game, and the move
\* drawn from board.pseudo_legal_moves.
make_unchecked_computer_move(b) ==
  UNION {
    LET b2 == Push(b, move)
        then == Rules(b2)
        pushed == <<PushEvent(b, move, "machine")>>
        sends == send_position_to_arduino(b2)
        tail == IF then.game_over THEN <<ShowGameOver>> ELSE <<>>
    IN {[board |-> b2, rules |-> then, trace |-> pushed \o sent \o read \o tail] :
          sent \in sends, read \in read_line_and_print}
    : move \in RandomChoice(PseudoLegalMoves(b))}

\* ChessGUI._make_computer_move on board b: every result it can end with, as
\* the board it leaves and what it did.
make_computer_move(b) ==
  LET now == Rules(b)
  IN IF now.game_over THEN {[board |-> b, rules |-> now, trace |-> <<>>]}
     ELSE LET legal == now.legal_moves
          IN IF legal = {} THEN {[board |-> b, rules |-> now, trace |-> <<>>]}
             ELSE UNION {
                    LET b2 == Push(b, move)
                        then == Rules(b2)
                        pushed == <<PushEvent(b, move, "machine")>>
                        sends == send_position_to_arduino(b2)
                        tail == IF then.game_over THEN <<ShowGameOver>> ELSE <<>>
                    IN {[board |-> b2, rules |-> then,
                         trace |-> pushed \o sent \o read \o tail] :
                          sent \in sends, read \in read_line_and_print}
                    : move \in RandomChoice(legal)}

\* A faulty second click: no retry with the queen promotion.
PlainMove(b, legal, sel, sq) == Move(sel, sq)

\* The move the second click tries: the plain move, or the queen promotion
\* when the plain move is not legal and a pawn reaches its last rank.
AttemptedMove(b, legal, sel, sq) ==
  LET move == Move(sel, sq)
  IN IF ~Contains(b, legal, move) /\ is_pawn_promotion(b, sel, sq)
     THEN MovePromo(sel, sq, "Q")
     ELSE move

\* What a handler leaves behind: the board (with its rules), the selection and
\* what it did.
Result(b, rules, sel, targets, branch, tr) ==
  [board |-> b, rules |-> rules, selected_square |-> sel,
   legal_targets |-> targets.legal_targets,
   capture_targets |-> targets.capture_targets, branch |-> branch, trace |-> tr]

\* The rules of the current board.
CurrentRules == [legal_moves |-> legal_moves, game_over |-> game_over]

NoTargets == [legal_targets |-> {}, capture_targets |-> {}]

\* An early return, which leaves everything as it is.
Returned(branch) ==
  Result(board, CurrentRules, selected_square,
         [legal_targets |-> legal_targets, capture_targets |-> capture_targets],
         branch, <<>>)

\* A faulty move by click: the machine replies only when the peripheral
\* answered the human's move with a line.
HumanMoveAwaitingAnswer(move) ==
  LET b1 == Push(board, move)
      then == Rules(b1)
      pushed == <<PushEvent(board, move, "human")>>
      sends == send_position_to_arduino(b1)
      after(read) == IF then.game_over
                     THEN {[board |-> b1, rules |-> then, trace |-> <<ShowGameOver>>]}
                     ELSE IF mode_var = "pvc" /\ read[1].resp # "" THEN make_computer_move(b1)
                     ELSE {[board |-> b1, rules |-> then, trace |-> <<>>]}
  IN UNION {{Result(rest.board, rest.rules, NoSquare, NoTargets, "moved",
                    pushed \o sent \o read \o rest.trace) : rest \in after(read)} :
            sent \in sends, read \in read_line_and_print}

\* A faulty move by click: the machine replies in two-player mode as well.
HumanMoveAlwaysAnswered(move) ==
  LET b1 == Push(board, move)
      then == Rules(b1)
      pushed == <<PushEvent(board, move, "human")>>
      sends == send_position_to_arduino(b1)
      after == IF then.game_over
               THEN {[board |-> b1, rules |-> then, trace |-> <<ShowGameOver>>]}
               ELSE make_computer_move(b1)
  IN {Result(rest.board, rest.rules, NoSquare, NoTargets, "moved",
             pushed \o sent \o read \o rest.trace) :
        sent \in sends, read \in read_line_and_print, rest \in after}

\* The human move of the second click and everything that follows it:
\* push, send, read, then the end of the game or the machine's reply.
HumanMove(move) ==
  LET b1 == Push(board, move)
      then == Rules(b1)
      pushed == <<PushEvent(board, move, "human")>>
      sends == send_position_to_arduino(b1)
      after == IF then.game_over
               THEN {[board |-> b1, rules |-> then, trace |-> <<ShowGameOver>>]}
               ELSE IF mode_var = "pvc" THEN make_computer_move(b1)
               ELSE {[board |-> b1, rules |-> then, trace |-> <<>>]}
  IN {Result(rest.board, rest.rules, NoSquare, NoTargets, "moved",
             pushed \o sent \o read \o rest.trace) :
        sent \in sends, read \in read_line_and_print, rest \in after}

\* A faulty first click: any piece is selected, whichever side is to move.
FirstClickAnyPiece(sq) ==
  IF piece_at(board, sq) = Empty
  THEN {Returned("ignored")}
  ELSE {Result(board, CurrentRules, <<sq>>,
               compute_targets_for_selected(board, legal_moves, <<sq>>),
               "selected", <<>>)}

\* The first click (nothing selected): an own piece is selected, anything else
\* is ignored.
FirstClick(sq) ==
  IF piece_at(board, sq) = Empty \/ ColorOf(piece_at(board, sq)) # board.turn
  THEN {Returned("ignored")}
  ELSE {Result(board, CurrentRules, <<sq>>,
               compute_targets_for_selected(board, legal_moves, <<sq>>),
               "selected", <<>>)}

\* The second click (a square is selected): the same square deselects, a legal
\* destination moves, anything else clears the selection.
SecondClick(sq) ==
  IF sq = selected_square[1]
  THEN {Result(board, CurrentRules, NoSquare, NoTargets, "deselected", <<>>)}
  ELSE LET move == AttemptedMove(board, legal_moves, selected_square[1], sq)
       IN IF Contains(board, legal_moves, move)
          THEN HumanMove(move)
          ELSE {Result(board, CurrentRules, NoSquare, NoTargets, "cancelled", <<>>)}

\* A faulty click handler: the turn is never looked at, so that against the
\* machine a click moves for whichever side is to move.
ClickResultsAnyTurn(rank, file) ==
  LET sq == square(file, rank)
  IN IF game_over THEN {Returned("game_over")}
     ELSE IF selected_square = NoSquare THEN FirstClick(sq)
     ELSE SecondClick(sq)

\* A faulty click handler: the end of the game is never looked at, so that a
\* click still selects and moves on a finished game.
ClickResultsAfterEnd(rank, file) ==
  LET sq == square(file, rank)
  IN IF mode_var = "pvc" /\ board.turn = BLACK THEN {Returned("machine_turn")}
     ELSE IF selected_square = NoSquare THEN FirstClick(sq)
     ELSE SecondClick(sq)

\* ChessGUI.on_square_clicked(rank, file): every result the handler can end with.
ClickResults(rank, file) ==
  LET sq == square(file, rank)
  IN IF game_over THEN {Returned("game_over")}
     ELSE IF mode_var = "pvc" /\ board.turn = BLACK THEN {Returned("machine_turn")}
     ELSE IF selected_square = NoSquare THEN FirstClick(sq)
     ELSE SecondClick(sq)

\* The lines a handler handed to the serial link, in order.
SentLines(tr) ==
  LET sends == SelectSeq(tr, LAMBDA e : e.op = "send")
  IN [i \in 1..Len(sends) |-> sends[i].line]

\* The line last handed to the link once a handler is done: its last send, or
\* the one before when it sent nothing.
LastSent(tr, before) ==
  IF SentLines(tr) = <<>> THEN before ELSE SentLines(tr)[Len(SentLines(tr))]

\* The pushes a handler made.
Pushes(tr) == Cardinality({i \in 1..Len(tr) : tr[i].op = "push"})

\* The plies one click can add: the human's move and, against the machine, the reply.
ClickCost == IF mode_var = "pvc" THEN 2 ELSE 1

\* The board, and the rules that follow from it.
SetBoard(b, rules) ==
  /\ board' = b
  /\ legal_moves' = rules.legal_moves
  /\ game_over' = rules.game_over

StartRules == Rules(StartBoard)

\* The sends of the start position, which __init__ and reset_game make.
StartSends == send_position_to_arduino(StartBoard)

on_square_clicked(rank, file) ==
  /\ app = "gui"
  /\ status = "running"
  /\ ClickCost <= budget
  /\ \E res \in ClickResults(rank, file) :
       /\ SetBoard(res.board, res.rules)
       /\ selected_square' = res.selected_square
       /\ legal_targets' = res.legal_targets
       /\ capture_targets' = res.capture_targets
       /\ handled' = [op |-> "click", branch |-> res.branch]
       /\ trace' = res.trace
       /\ budget' = budget - Pushes(res.trace)
       /\ last_sent' = LastSent(res.trace, last_sent)
  /\ UNCHANGED <<app, status, mode_var>>

\* A faulty reset_game: the start position is set up and sent, the selection
\* and its targets are left as they were.
reset_game_keeping_selection ==
  /\ app = "gui"
  /\ status = "running"
  /\ SetBoard(StartBoard, StartRules)
  /\ \E sent \in StartSends : trace' = <<NewEvent>> \o sent
  /\ handled' = [op |-> "reset", branch |-> "reset"]
  /\ budget' = MaxStartPlies
  /\ last_sent' = LastSent(trace', last_sent)
  /\ UNCHANGED <<app, status, mode_var, selected_square, legal_targets, capture_targets>>

\* A faulty reset_game: the start position is set up and nothing is sent.
reset_game_silent ==
  /\ app = "gui"
  /\ status = "running"
  /\ SetBoard(StartBoard, StartRules)
  /\ selected_square' = NoSquare
  /\ legal_targets' = {}
  /\ capture_targets' = {}
  /\ trace' = <<NewEvent>>
  /\ handled' = [op |-> "reset", branch |-> "reset"]
  /\ budget' = MaxStartPlies
  /\ UNCHANGED <<app, status, mode_var, last_sent>>

\* ChessGUI.reset_game
reset_game ==
  /\ app = "gui"
  /\ status = "running"
  /\ SetBoard(StartBoard, StartRules)
  /\ selected_square' = NoSquare
  /\ legal_targets' = {}
  /\ capture_targets' = {}
  /\ \E sent \in StartSends : trace' = <<NewEvent>> \o sent
  /\ handled' = [op |-> "reset", branch |-> "reset"]
  /\ budget' = MaxStartPlies
  /\ last_sent' = LastSent(trace', last_sent)
  /\ UNCHANGED <<app, status, mode_var>>

\* The two radio buttons bound to mode_var.
select_mode(mode) ==
  /\ app = "gui"
  /\ status = "running"
  /\ mode_var # mode
  /\ mode_var' = mode
  /\ handled' = [op |-> "mode", branch |-> mode]
  /\ trace' = <<>>
  /\ UNCHANGED <<app, status, board, legal_moves, game_over, selected_square,
                 legal_targets, capture_targets, budget, last_sent>>

(***************************************************************************)
(* Start-up of the two programs                                            *)
(***************************************************************************)
\* The GUI object right after ChessGUI.__init__: the start position, nothing
\* selected, two-player mode, the start position sent once.
Constructed(tr) ==
  /\ SetBoard(StartBoard, StartRules)
  /\ selected_square' = NoSquare
  /\ legal_targets' = {}
  /\ capture_targets' = {}
  /\ mode_var' = "pvp"
  /\ trace' = tr
  /\ budget' = MaxStartPlies
  /\ last_sent' = LastSent(trace', last_sent)

\* A faulty main: the Tk window and the ChessGUI object are built before the
\* link is opened, so a failing open leaves a window and a board behind.
main_window_first(found, opened) ==
  /\ app = "gui"
  /\ status = "start"
  /\ status' = IF found /\ opened THEN "running" ELSE "aborted"
  /\ handled' = [op |-> "main",
                 branch |-> IF ~found THEN "no_port"
                            ELSE IF opened THEN "started" ELSE "open_failed"]
  /\ IF found /\ opened
     THEN \E sent \in StartSends :
            Constructed(<<[op |-> "window"], NewEvent, [op |-> "open"]>> \o sent)
     ELSE Constructed(<<[op |-> "window"], NewEvent>>)
  /\ UNCHANGED app

\* completo.py run as a program: the port search at import, main() opening the
\* link, the Tk window and ChessGUI.__init__.  `found`: a /dev/ttyACM* or
\* /dev/ttyUSB* exists (or the platform is Windows); `opened`: serial.Serial
\* did not raise.
main_gui(found, opened) ==
  /\ app = "gui"
  /\ status = "start"
  /\ IF ~found \/ ~opened
     THEN /\ status' = "aborted"
          /\ handled' = [op |-> "main", branch |-> IF found THEN "open_failed" ELSE "no_port"]
          /\ trace' = <<>>
          /\ UNCHANGED <<board, legal_moves, game_over, selected_square, legal_targets,
                         capture_targets, mode_var, budget, last_sent>>
     ELSE /\ status' = "running"
          /\ handled' = [op |-> "main", branch |-> "started"]
          /\ \E sent \in StartSends :
               Constructed(<<[op |-> "open"], [op |-> "window"], NewEvent>> \o sent)
  /\ UNCHANGED app

\* pick_move_cli(board): any move the typed text can stand for that is `in
\* board.legal_moves`, castling also as the king taking its own rook.
pick_move_cli(b, legal) ==
  legal \cup {Move(m.from_square,
                   square(IF square_file(m.to_square) < square_file(m.from_square)
                          THEN 0 ELSE 7, square_rank(m.from_square))) :
              m \in {n \in legal : is_castling(b, n)}}

\* inicial.py main() up to the loop: open the link, the start position, its
\* FEN sent (a failing send ends the program), one line read and printed.
main_cli(opened) ==
  /\ app = "cli"
  /\ status = "start"
  /\ IF ~opened
     THEN /\ status' = "aborted"
          /\ handled' = [op |-> "main", branch |-> "open_failed"]
          /\ trace' = <<>>
          /\ UNCHANGED <<board, legal_moves, game_over, selected_square, legal_targets,
                         capture_targets, mode_var, budget, last_sent>>
     ELSE \E ok \in BOOLEAN, resp \in Responses :
            /\ status' = IF ok THEN "running" ELSE "crashed"
            /\ handled' = [op |-> "main", branch |-> IF ok THEN "started" ELSE "send_failed"]
            /\ Constructed(<<[op |-> "open"], NewEvent, send_fen(StartBoard, ok)>>
                             \o (IF ok THEN <<[op |-> "read", resp |-> resp],
                                              [op |-> "print", text |-> resp]>>
                                 ELSE <<>>))
  /\ UNCHANGED app

\* One turn of main's loop in inicial.py: a legal move is picked and pushed,
\* the FEN sent (a failing send ends the program), one line read.
cli_move ==
  /\ app = "cli"
  /\ status = "running"
  /\ ~game_over
  /\ budget > 0
  /\ \E move \in pick_move_cli(board, legal_moves) :
       LET b1 == Push(board, move)
           then == Rules(b1)
           pushed == <<PushEvent(board, move, "human")>>
       IN \E ok \in BOOLEAN, read \in read_line_and_print :
            /\ SetBoard(b1, then)
            /\ status' = IF ok THEN "running" ELSE "crashed"
            /\ handled' = [op |-> "cli_move", branch |-> IF ok THEN "moved" ELSE "send_failed"]
            /\ trace' = pushed \o <<send_fen(b1, ok)>> \o (IF ok THEN read ELSE <<>>)
  /\ budget' = budget - 1
  /\ last_sent' = LastSent(trace', last_sent)
  /\ UNCHANGED <<app, selected_square, legal_targets, capture_targets, mode_var>>

\* The loop of inicial.py ends when the game is over.
cli_game_over ==
  /\ app = "cli"
  /\ status = "running"
  /\ game_over
  /\ status' = "finished"
  /\ handled' = [op |-> "cli_game_over", branch |-> "finished"]
  /\ trace' = <<[op |-> "print", text |-> "Game over"]>>
  /\ UNCHANGED <<app, board, legal_moves, game_over, selected_square, legal_targets,
                 capture_targets, mode_var, budget, last_sent>>

(***************************************************************************)
(* ArduinoLink: the serial transport, byte by byte                         *)
(***************************************************************************)
\* The longest text handed to send_line and the longest line received.
MaxLine == 4

\* The characters of the texts: line feed, carriage return, space, a letter.
Chars == {"\n", "\r", " ", "K"}

\* The characters str.strip() removes.
Whitespace == {"\n", "\r", " "}

\* The bytes on the wire: the UTF-8 codes of the characters, and 255, a byte
\* that no UTF-8 text contains.
Bytes == {10, 13, 32, 75, 255}

\* The code of a character in UTF-8.
ord(c) == CASE c = "\n" -> 10 [] c = "\r" -> 13 [] c = " " -> 32 [] c = "K" -> 75

\* The character of a code.
chr(b) == CHOOSE c \in Chars : ord(c) = b

\* str.encode("utf-8")
encode(text) == [i \in 1..Len(text) |-> ord(text[i])]

\* The bytes that decode: those of some character.
Decodable(b) == \E c \in Chars : ord(c) = b

\* bytes.decode("utf-8", errors="ignore"): a byte that does not decode is
\* dropped, the others are kept.
decode(bytes) ==
  LET kept == SelectSeq(bytes, Decodable)
  IN [i \in 1..Len(kept) |-> chr(kept[i])]

\* str.endswith("\n")
endswith_newline(text) == Len(text) > 0 /\ text[Len(text)] = "\n"

\* str.rstrip()
RECURSIVE rstrip(_)
rstrip(text) ==
  IF Len(text) > 0 /\ text[Len(text)] \in Whitespace
  THEN rstrip(SubSeq(text, 1, Len(text) - 1))
  ELSE text

\* str.lstrip()
RECURSIVE lstrip(_)
lstrip(text) ==
  IF Len(text) > 0 /\ text[1] \in Whitespace THEN lstrip(Tail(text)) ELSE text

\* str.strip()
strip(text) == lstrip(rstrip(text))

\* The sequences over a set, up to a length.
SeqsUpTo(S, n) == UNION {[1..k -> S] : k \in 0..n}

\* The texts handed to send_line.
Texts == SeqsUpTo(Chars, MaxLine)

\* What ser.readline() can do: raise, or return the bytes received up to and
\* with the first line feed, or those received until the timeout (none, or a
\* line cut short).
ReadlineOutcomes ==
  {[raised |-> TRUE, bytes |-> <<>>]}
    \cup {[raised |-> FALSE, bytes |-> bytes] :
            bytes \in {s \in SeqsUpTo(Bytes, MaxLine) :
                         \A i \in 1..(Len(s) - 1) : s[i] # 10}}

\* A faulty read_line: rstrip() in place of strip().
read_line_rstrip(outcome) ==
  [raised |-> FALSE,
   value |-> IF outcome.raised THEN <<>> ELSE rstrip(decode(outcome.bytes))]

\* ArduinoLink.read_line: the line decoded and stripped, the empty string when
\* anything raised.
read_line(outcome) ==
  [raised |-> FALSE,
   value |-> IF outcome.raised THEN <<>> ELSE strip(decode(outcome.bytes))]

\* write_delay of ArduinoLink, in milliseconds.
write_delay == 20

\* Where a send can raise: nowhere, in ser.write or in ser.flush.
SendFailures == {"none", "write", "flush"}

\* A faulty send_line: the line feed appended to every text.
send_line_always_newline(line, fails) ==
  LET written == <<[op |-> "write", bytes |-> encode(line \o <<"\n">>)]>>
      flushed == written \o <<[op |-> "flush"]>>
  IN IF fails = "write" THEN [raised |-> TRUE, events |-> written]
     ELSE IF fails = "flush" THEN [raised |-> TRUE, events |-> flushed]
     ELSE [raised |-> FALSE,
           events |-> flushed \o (IF write_delay # 0
                                  THEN <<[op |-> "sleep", ms |-> write_delay]>>
                                  ELSE <<>>)]

\* ArduinoLink.send_line: the line feed appended when missing, the bytes
\* written, the port flushed, the delay; an exception of write or flush leaves
\* the method at once.
send_line(line, fails) ==
  LET full == IF ~endswith_newline(line) THEN line \o <<"\n">> ELSE line
      written == <<[op |-> "write", bytes |-> encode(full)]>>
      flushed == written \o <<[op |-> "flush"]>>
  IN IF fails = "write" THEN [raised |-> TRUE, events |-> written]
     ELSE IF fails = "flush" THEN [raised |-> TRUE, events |-> flushed]
     ELSE [raised |-> FALSE,
           events |-> flushed \o (IF write_delay # 0
                                  THEN <<[op |-> "sleep", ms |-> write_delay]>>
                                  ELSE <<>>)]

\* link.read_line() called on the open link, ser.readline() doing what the
\* state says.
ReadLine ==
  /\ app = "link"
  /\ status = "running"
  /\ handled = [op |-> "call", branch |-> "read_line"]
  /\ LET res == read_line(trace[1])
     IN /\ handled' = [op |-> "read_line",
                       branch |-> IF res.raised THEN "raised" ELSE "returned"]
        /\ trace' = trace \o <<[op |-> "return", value |-> res.value]>>
  /\ UNCHANGED <<app, status, board, legal_moves, game_over, selected_square,
                 legal_targets, capture_targets, mode_var, budget, last_sent>>

\* link.send_line(line) called on the open link, with the line and the
\* failure of the state.
SendLine ==
  /\ app = "link"
  /\ status = "running"
  /\ handled = [op |-> "call", branch |-> "send_line"]
  /\ LET res == send_line(trace[1].line, trace[1].fails)
     IN /\ handled' = [op |-> "send_line",
                       branch |-> IF res.raised THEN "raised" ELSE "returned"]
        /\ trace' = trace \o res.events
  /\ UNCHANGED <<app, status, board, legal_moves, game_over, selected_square,
                 legal_targets, capture_targets, mode_var, budget, last_sent>>

\* The link open and one call about to be made: read_line with what
\* ser.readline() will do, or send_line with its text and where it will fail.
LinkInit ==
  /\ app = "link"
  /\ status = "running"
  /\ board = NoBoard
  /\ legal_moves = {}
  /\ game_over = FALSE
  /\ selected_square = NoSquare
  /\ legal_targets = {}
  /\ capture_targets = {}
  /\ mode_var = "pvp"
  /\ budget = 0
  /\ last_sent = ""
  /\ \/ /\ handled = [op |-> "call", branch |-> "read_line"]
        /\ \E outcome \in ReadlineOutcomes :
             trace = <<[op |-> "readline", raised |-> outcome.raised,
                        bytes |-> outcome.bytes]>>
     \/ /\ handled = [op |-> "call", branch |-> "send_line"]
        /\ \E line \in Texts, fails \in SendFailures :
             trace = <<[op |-> "call", line |-> line, fails |-> fails]>>

LinkNext == ReadLine \/ SendLine

LinkSpec == LinkInit /\ [][LinkNext]_vars

(***************************************************************************)
(* Specification                                                           *)
(***************************************************************************)
\* Either program before it starts, or at rest in a game in progress.
Init ==
  /\ app \in {"gui", "cli"}
  /\ selected_square = NoSquare
  /\ legal_targets = {}
  /\ capture_targets = {}
  /\ mode_var = "pvp"
  /\ trace = <<>>
  /\ budget = MaxPlies
  /\ \/ /\ status = "start"
        /\ board = NoBoard
        /\ legal_moves = {}
        /\ game_over = FALSE
        /\ handled = [op |-> "none", branch |-> "none"]
        /\ last_sent = ""
     \/ /\ status = "running"
        /\ board \in GamesInProgress
        /\ legal_moves = LegalMoves(board)
        /\ game_over = is_game_over(board)
        /\ handled = [op |-> "resume", branch |-> "resume"]
        /\ last_sent = fen(board)

Next ==
  \/ \E found \in BOOLEAN, opened \in BOOLEAN : main_gui(found, opened)
  \/ \E rank \in Coords, file \in Coords : on_square_clicked(rank, file)
  \/ reset_game
  \/ \E mode \in {"pvp", "pvc"} : select_mode(mode)
  \/ \E opened \in BOOLEAN : main_cli(opened)
  \/ cli_move
  \/ cli_game_over

Spec == Init /\ [][Next]_vars

\* The memo of the rules agrees with the board.
RulesAgree ==
  status = "running" =>
    /\ legal_moves = LegalMoves(board)
    /\ game_over = is_game_over(board)
    /\ \A m \in PseudoLegalMoves(board) : is_legal(board, m) <=> m \in legal_moves

TypeOK ==
  /\ app \in {"gui", "cli"}
  /\ status \in {"start", "aborted", "running", "finished", "crashed"}
  /\ selected_square \in {NoSquare} \cup {<<sq>> : sq \in SQUARES}
  /\ legal_targets \subseteq SQUARES
  /\ capture_targets \subseteq SQUARES
  /\ mode_var \in {"pvp", "pvc"}
  /\ budget \in 0..(MaxPlies + MaxStartPlies)
  /\ last_sent \in STRING

(***************************************************************************)
(* Properties of the click handler and of the serial traffic               *)
(***************************************************************************)
\* The window is up and handles events.
GuiRunning == app = "gui" /\ status = "running"

\* The window is up and the click handler runs within the plies explored.
ClickHandled == GuiRunning /\ ClickCost <= budget

\* A click on square sq: every result of the handler.
ClickOn(sq) == ClickResults(square_rank(sq), square_file(sq))

\* The legal moves a pair of squares stands for: a promotion is to the queen.
ClickableMoves == {m \in legal_moves : m.promotion \in {NoPromotion, "Q"}}

\* The boards the machine's reply can leave when it answers on board b.
AfterReply(b) ==
  IF is_game_over(b) THEN {b} ELSE {Push(b, reply) : reply \in LegalMoves(b)}

\* C1 as stated: in any game mode, a click that applies a legal move of board
\* B leaves the board equal to B with exactly that move applied.
C1_AnyModeExactlyThatMove ==
  [][handled'.op = "click" /\ handled'.branch = "moved"
       => board' = Push(board, trace'[1].move)]_vars

\* C1 as amended: with nothing selected a click on the origin of a legal move
\* selects it and leaves the board alone; the click on the destination then
\* leaves, in two-player mode, the board with exactly that move applied (a
\* promotion being to the queen) and, against the machine with White to move,
\* that board after one legal reply of the machine, or that board itself when
\* the move ended the game.
C1_MoveThenReplyAgainstMachine ==
  ClickHandled /\ ~game_over /\ (mode_var = "pvp" \/ board.turn = WHITE) =>
    \A m \in ClickableMoves :
      /\ selected_square = NoSquare =>
           \A res \in ClickOn(m.from_square) :
             res.selected_square = <<m.from_square>> /\ res.board = board
      /\ selected_square = <<m.from_square>> =>
           LET b1 == Push(board, m)
               expected == IF mode_var = "pvp" THEN {b1} ELSE AfterReply(b1)
           IN \A res \in ClickOn(m.to_square) : res.board \in expected

\* A click against the machine has applied the human's move and the reply.
C1_Witness ==
  /\ handled = [op |-> "click", branch |-> "moved"]
  /\ mode_var = "pvc"
  /\ Pushes(trace) = 2
  /\ trace[1].by = "human"
  /\ board.turn = WHITE

\* C2 as stated: the click pair of a legal move hands exactly one FEN line to
\* the serial link, the encoding of the board that results from the move.
C2_ExactlyOneLine ==
  [][handled'.op = "click" /\ handled'.branch = "moved"
       => SentLines(trace') = <<fen(Push(board, trace'[1].move))>>]_vars

\* C2 as amended: the first click of the pair sends nothing; the second sends
\* the FEN of the board after the move and then, against the machine with
\* White to move and the game not ended by the move, the FEN of the board
\* after the machine's reply: one line in two-player mode or when the move
\* ends the game, two lines otherwise.
C2_OneLinePerAppliedMove ==
  ClickHandled /\ ~game_over /\ (mode_var = "pvp" \/ board.turn = WHITE) =>
    \A m \in ClickableMoves :
      /\ selected_square = NoSquare =>
           \A res \in ClickOn(m.from_square) : SentLines(res.trace) = <<>>
      /\ selected_square = <<m.from_square>> =>
           LET b1 == Push(board, m)
               first == fen(b1)
               alone == mode_var = "pvp" \/ is_game_over(b1)
           IN \A res \in ClickOn(m.to_square) :
                IF alone
                THEN SentLines(res.trace) = <<first>>
                ELSE SentLines(res.trace) = <<first, fen(res.board)>>
                       /\ res.board # b1

\* A click against the machine has sent two lines, the second being the FEN
\* of the board it left.
C2_Witness ==
  /\ handled = [op |-> "click", branch |-> "moved"]
  /\ mode_var = "pvc"
  /\ Len(SentLines(trace)) = 2
  /\ SentLines(trace)[2] = fen(board)
  /\ SentLines(trace)[1] # fen(board)

\* Every change of the board in a handler's trace is followed at once by the
\* send of the FEN of the new position.
EveryChangeSent(tr) ==
  \A i \in 1..Len(tr) :
    tr[i].op \in {"new", "push"} =>
      i < Len(tr) /\ tr[i + 1].op = "send" /\ tr[i + 1].line = tr[i].fen

\* The changes of the board a handler made.
Changes(tr) == SelectSeq(tr, LAMBDA e : e.op \in {"new", "push"})

\* C3: every change of the board (the start position at construction, a human
\* move, a move of the machine, a reset, a move of the CLI loop) is followed
\* by a send attempt of the FEN of the new position before the board changes
\* again, and the board never changes without one.
C3_EveryChangeIsSent ==
  [][/\ EveryChangeSent(trace')
     /\ board' # board => Changes(trace') # <<>>
     /\ Changes(trace') # <<>> =>
          Changes(trace')[Len(Changes(trace'))].fen = fen(board')]_vars

\* A reset has put up the start position and tried to send it.
C3_Witness ==
  /\ handled.op = "reset"
  /\ Len(trace) = 2
  /\ trace[1].op = "new"
  /\ trace[2].op = "send"
  /\ trace[2].line = fen(board)

\* C4: with nothing selected, a click on a square that is empty or holds a
\* piece of the side not to move leaves nothing selected, leaves the board and
\* both target sets as they are, and sends nothing.
C4_IdleClickOnForeignSquare ==
  GuiRunning /\ selected_square = NoSquare =>
    \A sq \in SQUARES :
      (piece_at(board, sq) = Empty \/ ColorOf(piece_at(board, sq)) # board.turn) =>
        \A res \in ClickOn(sq) :
          /\ res.selected_square = NoSquare
          /\ res.board = board
          /\ res.legal_targets = legal_targets
          /\ res.capture_targets = capture_targets
          /\ res.trace = <<>>

\* A first click has been ignored.
C4_Witness ==
  /\ handled = [op |-> "click", branch |-> "ignored"]
  /\ selected_square = NoSquare
  /\ legal_targets = {}
  /\ trace = <<>>

\* C5: with sel selected, a click on sel leaves nothing selected and both
\* target sets empty, leaves the board as it is and sends nothing.
C5_ClickOnSelectedDeselects ==
  GuiRunning /\ selected_square # NoSquare =>
    \A res \in ClickOn(selected_square[1]) :
      /\ res.selected_square = NoSquare
      /\ res.legal_targets = {}
      /\ res.capture_targets = {}
      /\ res.board = board
      /\ res.trace = <<>>

\* C6: with sel selected, a click on another square s for which neither the
\* plain move (sel, s) nor its queen promotion is legal leaves nothing
\* selected, leaves the board as it is, sends nothing and does not call on
\* the machine.
C6_IllegalDestinationCancels ==
  GuiRunning /\ selected_square # NoSquare =>
    \A sq \in SQUARES \ {selected_square[1]} :
      (/\ ~Contains(board, legal_moves, Move(selected_square[1], sq))
       /\ ~Contains(board, legal_moves, MovePromo(selected_square[1], sq, "Q"))) =>
        \A res \in ClickOn(sq) :
          /\ res.selected_square = NoSquare
          /\ res.legal_targets = {}
          /\ res.capture_targets = {}
          /\ res.board = board
          /\ res.trace = <<>>

\* The human's moves among the changes a handler made.
HumanMoves(tr) ==
  LET pushes == SelectSeq(tr, LAMBDA e : e.op = "push" /\ e.by = "human")
  IN {pushes[i].move : i \in 1..Len(pushes)}

\* C7: with a pawn of the side to move selected, a click on a square of that
\* colour's last rank for which the plain move is illegal and a promotion is
\* legal applies the queen promotion; no click applies a promotion to another
\* piece, and a click applies a promotion only for a pawn that reaches its own
\* last rank.
C7_QueenPromotionByClick ==
  GuiRunning /\ selected_square # NoSquare =>
    LET sel == selected_square[1]
    IN \A sq \in SQUARES \ {sel} :
         LET promoting ==
               /\ piece_at(board, sel) = Symbol("P", board.turn)
               /\ square_rank(sq) = LastRank(board.turn)
               /\ Move(sel, sq) \notin legal_moves
               /\ \E type \in PromotionTypes : MovePromo(sel, sq, type) \in legal_moves
         IN \A res \in ClickOn(sq) :
              /\ promoting => HumanMoves(res.trace) = {MovePromo(sel, sq, "Q")}
              /\ \A m \in HumanMoves(res.trace) :
                   /\ m.promotion \in {NoPromotion, "Q"}
                   /\ m.promotion = "Q" => promoting

\* C8: in every state the capture targets are among the legal targets.
C8_CaptureTargetsAmongLegalTargets == capture_targets \subseteq legal_targets

\* A piece is selected that has a capture and a move that is none.
C8_Witness ==
  /\ handled = [op |-> "click", branch |-> "selected"]
  /\ selected_square # NoSquare
  /\ capture_targets # {}
  /\ capture_targets # legal_targets

\* C9: a selection never outlives a click or a reset: from a state with a
\* square selected every click and every reset leaves nothing selected.
C9_SelectionNeverSurvives ==
  [][selected_square # NoSquare /\ handled'.op \in {"click", "reset"}
       => selected_square' = NoSquare]_vars

\* The moves pushed in a handler's trace, in order.
PushesOf(tr) == SelectSeq(tr, LAMBDA e : e.op = "push")

\* C10: a move _make_computer_move applies to board B is a legal move of B
\* (B being the board the human's move has just left), and on a board where
\* the game is over, as it is whenever no move is legal, it applies no move
\* and sends nothing (tried on every board a move leaves with the game over).
C10_MachineMovesAreLegal ==
  [][/\ \A i \in 1..Len(PushesOf(trace')) :
          PushesOf(trace')[i].by = "machine" =>
            LET B == Push(board, PushesOf(trace')[1].move)
                reply == PushesOf(trace')[i].move
            IN /\ i = 2
               /\ is_legal(B, reply)
               /\ board' = Push(B, reply)
     /\ (app' = "gui" /\ game_over' /\ board' # board) =>
          \A res \in make_computer_move(board') :
            res.board = board' /\ res.trace = <<>>]_vars

\* The machine has answered a click with a move, and the move ended the game.
C10_Witness ==
  /\ handled = [op |-> "click", branch |-> "moved"]
  /\ Pushes(trace) = 2
  /\ PushesOf(trace)[2].by = "machine"
  /\ trace[Len(trace)].op = "show_game_over"
  /\ game_over

\* A send of the handler failed: the write or the flush raised.
SendFailed(tr) == \E i \in 1..Len(tr) : tr[i].op = "send" /\ ~tr[i].ok

\* C11: a failed send never halts the session, in the GUI and in the CLI loop:
\* after an operation that applied a move and whose send failed, the program
\* still runs, the move is on the board and nothing is selected.
C11_FailedSendNeverHalts ==
  (Pushes(trace) > 0 /\ SendFailed(trace)) =>
    /\ status = "running"
    /\ fen(board) = Changes(trace)[Len(Changes(trace))].fen
    /\ selected_square = NoSquare

\* The position of the first event `op` of the trace, 0 when there is none.
FirstEvent(tr, op) ==
  IF \E i \in 1..Len(tr) : tr[i].op = op
  THEN CHOOSE i \in 1..Len(tr) : tr[i].op = op /\ \A j \in 1..(i - 1) : tr[j].op # op
  ELSE 0

\* C12: when no serial device is found or the open fails at start-up, the
\* program ends with no window shown, no board built and no line sent; a start
\* that shows the window opened the link first.
C12_AbortBeforeWindowBoardAndSend ==
  /\ (app = "gui" /\ status = "aborted") =>
       /\ board = NoBoard
       /\ trace = <<>>
  /\ (app = "gui" /\ handled.op = "main" /\ status = "running") =>
       /\ FirstEvent(trace, "open") = 1
       /\ FirstEvent(trace, "window") > 1
       /\ FirstEvent(trace, "new") > FirstEvent(trace, "window")
       /\ FirstEvent(trace, "send") > FirstEvent(trace, "new")

\* The open failed at start-up of the GUI program.
C12_Witness ==
  app = "gui" /\ status = "aborted" /\ handled = [op |-> "main", branch |-> "open_failed"]

\* The text is `value` between `lead` characters before it and `trail` after
\* it, all of them whitespace.
Trimmed(text, lead, value, trail) ==
  /\ Len(text) = lead + Len(value) + trail
  /\ SubSeq(text, lead + 1, lead + Len(value)) = value
  /\ \A i \in 1..lead : text[i] \in Whitespace
  /\ \A i \in (Len(text) - trail + 1)..Len(text) : text[i] \in Whitespace
  /\ value = <<>> \/ (value[1] \notin Whitespace /\ value[Len(value)] \notin Whitespace)

\* read_line has returned or raised.
ReadLineDone == app = "link" /\ handled.op = "read_line"

\* C13 as stated: read_line never raises; a timeout with no bytes or any
\* transport or decode failure gives the empty string; otherwise the received
\* line comes back with its trailing newline and whitespace removed.
C13_TrailingWhitespaceRemoved ==
  ReadLineDone =>
    LET got == trace[1]
        value == trace[2].value
    IN /\ handled.branch = "returned"
       /\ IF got.raised \/ got.bytes = <<>>
             \/ \E i \in 1..Len(got.bytes) : ~Decodable(got.bytes[i])
          THEN value = <<>>
          ELSE \E trail \in 0..Len(got.bytes) :
                 Trimmed(decode(got.bytes), 0, value, trail)

\* C13: read_line never raises; a timeout with no bytes or a transport failure
\* gives the empty string; otherwise the received line comes back decoded, the
\* bytes that do not decode dropped, with the whitespace at both ends removed.
C13_WhitespaceRemovedAtBothEnds ==
  ReadLineDone =>
    LET got == trace[1]
        value == trace[2].value
    IN /\ handled.branch = "returned"
       /\ (got.raised \/ got.bytes = <<>>) => value = <<>>
       /\ \E lead \in 0..Len(got.bytes), trail \in 0..Len(got.bytes) :
            Trimmed(decode(got.bytes), lead, value, trail)

\* A line with a leading space and a byte that does not decode was read.
C13_Witness ==
  /\ ReadLineDone
  /\ trace[1].bytes = <<32, 255, 75, 10>>
  /\ trace[2].value = <<"K">>

\* send_line has returned or raised.
SendLineDone == app = "link" /\ handled.op = "send_line"

\* The operations of a sequence of events, in order.
Ops(events) == [i \in 1..Len(events) |-> events[i].op]

\* C14: send_line writes the text ending with exactly the line feed it had or,
\* when it had none, with one appended; it writes, then flushes, then waits,
\* and reads nothing; an exception of the write or the flush ends it there.
C14_NewlineAppendedWhenMissing ==
  SendLineDone =>
    LET line == trace[1].line
        fails == trace[1].fails
        events == Tail(trace)
        sent == decode(events[1].bytes)
    IN /\ events[1].op = "write"
       /\ Len(events[1].bytes) = Len(sent)
       /\ sent[Len(sent)] = "\n"
       /\ sent = line \/ sent = line \o <<"\n">>
       /\ sent = line <=> (line # <<>> /\ line[Len(line)] = "\n")
       /\ Ops(events) = CASE fails = "none" -> <<"write", "flush", "sleep">>
                          [] fails = "flush" -> <<"write", "flush">>
                          [] fails = "write" -> <<"write">>
       /\ (handled.branch = "raised") <=> (fails # "none")

\* A text that ends with a line feed was sent as it is, and all three steps
\* were done.
C14_Witness ==
  /\ SendLineDone
  /\ trace[1].line = <<"K", "\n">>
  /\ trace[2] = [op |-> "write", bytes |-> <<75, 10>>]
  /\ Len(trace) = 4

\* The responses a handler read, in order.
Reads(tr) ==
  LET read == SelectSeq(tr, LAMBDA e : e.op = "read")
  IN [i \in 1..Len(read) |-> read[i].resp]

\* What a click did, the responses and their logging left out: the board, the
\* selection and the lines handed to the link.
Outcome(res) ==
  [board |-> res.board, selected_square |-> res.selected_square,
   legal_targets |-> res.legal_targets, capture_targets |-> res.capture_targets,
   did |-> SelectSeq(res.trace, LAMBDA e : e.op \notin {"read", "print"})]

\* Every line read was read right after a send.
ReadsFollowSends(tr) ==
  \A i \in 1..Len(tr) : tr[i].op = "read" => (i > 1 /\ tr[i - 1].op = "send")

\* C15: the lines read back never influence what the program does: for the same
\* click in the same state, whatever the peripheral answers, the same boards,
\* selections and sent lines can follow; and a line is read only right after a
\* send, one at most.
C15_ResponsesNeverSteer ==
  /\ ReadsFollowSends(trace)
  /\ ClickHandled =>
       \A sq \in SQUARES :
         LET results == ClickOn(sq)
             read == {Reads(res.trace) : res \in results}
             Seen(r) == {Outcome(res) : res \in {x \in results : Reads(x.trace) = r}}
         IN /\ \E n \in 0..2 : read = [1..n -> Responses]
            /\ \A r \in read : Seen(r) = {Outcome(res) : res \in results}
            /\ \A res \in results : ReadsFollowSends(res.trace)

\* A click moved against the machine, which replied; the peripheral answered
\* the first send and not the second.
C15_Witness ==
  /\ GuiRunning
  /\ handled = [op |-> "click", branch |-> "moved"]
  /\ Pushes(trace) = 2
  /\ Reads(trace) = <<"OK", "">>

\* The colour of the piece a move of the handler moved: the piece that stands
\* on the move's start square before the move, after the first `i - 1` moves
\* of the handler.
RECURSIVE BoardBefore(_, _, _)
BoardBefore(b, pushes, i) ==
  IF i = 1 THEN b ELSE BoardBefore(Push(b, pushes[1].move), Tail(pushes), i - 1)

MoverOf(b, pushes, i) ==
  ColorOf(piece_at(BoardBefore(b, pushes, i), pushes[i].move.from_square))

\* C16: against the machine the human plays White and the machine Black: every
\* move the machine applies moves a black piece, every move a click applies in
\* that mode moves a white piece, and a click with Black to move changes
\* nothing.
C16_HumanWhiteMachineBlack ==
  [][LET pushes == PushesOf(trace')
     IN /\ \A i \in 1..Len(pushes) :
             /\ pushes[i].by = "machine" =>
                  /\ MoverOf(board, pushes, i) = BLACK
                  /\ mode_var = "pvc"
             /\ (pushes[i].by = "human" /\ app = "gui" /\ mode_var = "pvc") =>
                  MoverOf(board, pushes, i) = WHITE
        /\ (GuiRunning /\ mode_var = "pvc" /\ board.turn = BLACK
              /\ handled'.op = "click") =>
             /\ trace' = <<>>
             /\ UNCHANGED <<board, selected_square, legal_targets, capture_targets>>]_vars

\* White moved by a click against the machine and Black's reply was applied.
C16_Witness ==
  /\ GuiRunning
  /\ mode_var = "pvc"
  /\ handled = [op |-> "click", branch |-> "moved"]
  /\ Len(PushesOf(trace)) = 2
  /\ PushesOf(trace)[1].by = "human"
  /\ PushesOf(trace)[2].by = "machine"
  /\ ~game_over

\* The moves, sends and reads of a handler, in order: who moved, "send", "read".
Steps(tr) ==
  LET steps == SelectSeq(tr, LAMBDA e : e.op \in {"push", "send", "read"})
  IN [i \in 1..Len(steps) |-> IF steps[i].op = "push" THEN steps[i].by ELSE steps[i].op]

\* C17: within one click against the machine, a human move that does not end
\* the game is followed by exactly one machine move, in the order human move,
\* send, read, machine move, send, read, each send carrying the FEN of the board
\* just reached; a human move that ends the game is followed by none; in
\* two-player mode the machine never moves.
C17_OneReplyPerHumanMove ==
  [][(app = "gui" /\ handled'.op = "click" /\ Pushes(trace') > 0) =>
       LET pushes == PushesOf(trace')
           B == Push(board, pushes[1].move)
       IN /\ EveryChangeSent(trace')
          /\ IF mode_var = "pvc" /\ Len(pushes) = 2
             THEN /\ Steps(trace') = <<"human", "send", "read", "machine", "send", "read">>
                  /\ is_legal(B, pushes[2].move)
                  /\ ~HasOutcome(B, {pushes[2].move})
             ELSE /\ Steps(trace') = <<"human", "send", "read">>
                  /\ board' = B
                  /\ mode_var = "pvc" => is_game_over(B)]_vars

\* A click against the machine applied a move that ended the game, and the
\* machine did not move.
C17_Witness ==
  /\ GuiRunning
  /\ mode_var = "pvc"
  /\ handled = [op |-> "click", branch |-> "moved"]
  /\ Steps(trace) = <<"human", "send", "read">>
  /\ game_over

\* C18: the game never waits for the machine: at rest, against the machine and
\* with the game not over, it is White's, the human's, turn.
C18_NeverWaitingForMachine ==
  (GuiRunning /\ mode_var = "pvc" /\ ~game_over) => board.turn = WHITE

\* The legal moves of the board that start on a square, worked out from the
\* board.
LegalFrom(b, sq) ==
  {m \in MovesFrom(b, sq) \cup {c \in CastlingMoves(b) : c.from_square = sq} :
     is_legal(b, m)}

\* C19: the selection is never stale: at rest a selected square holds a piece
\* of the side to move on the current board, legal_targets are exactly the
\* destinations of the board's legal moves from it and capture_targets exactly
\* those of its captures; with no square selected both sets are empty.
C19_SelectionNeverStale ==
  GuiRunning =>
    IF selected_square = NoSquare
    THEN legal_targets = {} /\ capture_targets = {}
    ELSE LET sq == selected_square[1]
             legal == LegalFrom(board, sq)
         IN /\ OwnAt(board, sq)
            /\ legal_targets = {m.to_square : m \in legal}
            /\ capture_targets = {m.to_square : m \in {n \in legal : is_capture(board, n)}}

\* A selection with targets outlived a change of mode.
C19_Witness ==
  /\ GuiRunning
  /\ handled.op = "mode"
  /\ selected_square # NoSquare
  /\ legal_targets # {}

\* C20: at rest the line the program last tried to send is the FEN of the
\* current board; a failed send is not tried again: a handler sends once for
\* each position it reaches and never otherwise, and each line is the whole
\* position of that moment.
C20_LastLineIsCurrentPosition ==
  (app \in {"gui", "cli"} /\ status = "running") =>
    /\ last_sent = fen(board)
    /\ Len(SentLines(trace)) = Len(Changes(trace))
    /\ \A i \in 1..Len(Changes(trace)) : SentLines(trace)[i] = Changes(trace)[i].fen

\* At rest after a click whose only send failed.
C20_Witness ==
  /\ GuiRunning
  /\ handled = [op |-> "click", branch |-> "moved"]
  /\ SendFailed(trace)
  /\ Len(SentLines(trace)) = 1
  /\ last_sent = fen(board)

\* C21: once the game is over the position is frozen until reset: nothing is
\* selected, a click changes neither the board nor the selection and sends
\* nothing, the machine applies no move, and the board changes only by
\* reset_game, which sets up the start position with nothing selected.
C21_GameOverFrozenUntilReset ==
  [][(GuiRunning /\ game_over) =>
       /\ selected_square = NoSquare
       /\ legal_targets = {}
       /\ capture_targets = {}
       /\ PushesOf(trace') = <<>>
       /\ \A res \in make_computer_move(board) : res.board = board /\ res.trace = <<>>
       /\ handled'.op = "click" =>
            /\ trace' = <<>>
            /\ UNCHANGED <<board, game_over, selected_square, legal_targets,
                           capture_targets, last_sent>>
       /\ board' # board =>
            /\ handled'.op = "reset"
            /\ board' = StartBoard
            /\ ~game_over'
            /\ selected_square' = NoSquare
            /\ legal_targets' = {}
            /\ capture_targets' = {}]_vars

\* A click was handled on a finished game.
C21_Witness ==
  /\ GuiRunning
  /\ game_over
  /\ is_game_over(board)
  /\ handled = [op |-> "click", branch |-> "game_over"]

=============================================================================
